---- MODULE Spec2Model ----
(***************************************************************************)
(* Model of the oh-my-claude menubar application (apps/menubar/src-tauri): *)
(* the session aggregator (commands.rs), the registry reader               *)
(* (registry.rs), and the tray menu engine and click router (tray.rs),     *)
(* driven by the timer task of main.rs.                                    *)
(*                                                                         *)
(* A Rust string is modelled as a sequence of one-character strings, so    *)
(* that formatting, prefix tests, splitting and suffix stripping are       *)
(* computed character by character as the code computes them.              *)
(* An Option<T> is the record None or Some(v).                             *)
(***************************************************************************)
EXTENDS Integers, Sequences, FiniteSets, TLC

VARIABLES
    counter,   \* MENU_COUNTER (tray.rs:21)
    last,      \* LAST_MENU_FINGERPRINT (tray.rs:25)
    menu,      \* the menu currently installed on the tray icon "main"
    issued,    \* every identifier uid has returned so far, in allocation order
    exited,    \* TRUE once app.exit(0) has run
    store,     \* the registry file proxy-sessions.json
    alive,     \* the pids for which the OS liveness probe succeeds
    proxy,     \* the control API behind each control port
    task,      \* the timer task and the action tasks, each with its position
    probe,     \* the last evaluation of a command or pure function under test
    failures   \* the number of refresh_tray passes that returned an error

vars == <<counter, last, menu, issued, exited, store, alive, proxy, task, probe,
          failures>>

---------------------------------------------------------------------------
(* Bounds of the model *)

\* uid stops allocating at this counter value (Spec; SpecUid; SpecTimer)
MaxCounter == 27
MaxCounterUid == 19
MaxCounterTimer == 24
\* refresh_tray passes that may return an error in one run
MaxFailures == 1
\* number of action tasks that may be alive at once
MaxActionTasks == 1

---------------------------------------------------------------------------
(* Option *)

None == [some |-> FALSE, val |-> <<>>]
Some(v) == [some |-> TRUE, val |-> v]
\* Option::unwrap_or (for Option<String>::as_deref().unwrap_or(d))
unwrap_or(o, d) == IF o.some THEN o.val ELSE d

---------------------------------------------------------------------------
(* Strings *)

IsAsciiDigit(c) == c \in {"0", "1", "2", "3", "4", "5", "6", "7", "8", "9"}

DigitChar(d) == <<"0", "1", "2", "3", "4", "5", "6", "7", "8", "9">>[d + 1]

DigitValue(c) == CHOOSE d \in 0..9 : DigitChar(d) = c

\* Display of an unsigned integer: decimal, no sign, no leading zeros
RECURSIVE to_string(_)
to_string(n) ==
    IF n < 10 THEN <<DigitChar(n)>>
    ELSE to_string(n \div 10) \o <<DigitChar(n % 10)>>

\* Display of a bool
BoolToString(b) == IF b THEN <<"t", "r", "u", "e">> ELSE <<"f", "a", "l", "s", "e">>

\* str::starts_with
starts_with(s, p) == Len(s) >= Len(p) /\ SubSeq(s, 1, Len(p)) = p

\* str::rfind(char): the 1-based position of the last occurrence, 0 for Option::None
rfind(s, c) ==
    IF \E i \in 1..Len(s) : s[i] = c
    THEN CHOOSE i \in 1..Len(s) : s[i] = c /\ \A j \in (i + 1)..Len(s) : s[j] # c
    ELSE 0

\* str::split(char): the fields between the separators; one empty field for ""
split(s, c) ==
    LET seps == {i \in 1..Len(s) : s[i] = c}
        \* the position of the k-th separator, 0 before the first field and
        \* Len(s) + 1 after the last
        sep(k) == IF k = 0 THEN 0
                  ELSE IF k > Cardinality(seps) THEN Len(s) + 1
                  ELSE CHOOSE i \in seps : Cardinality({j \in seps : j < i}) = k - 1
    IN  [k \in 1..(Cardinality(seps) + 1) |-> SubSeq(s, sep(k - 1) + 1, sep(k) - 1)]

\* str::rsplit(char).next(): the last field
rsplit_next(s, c) == SubSeq(s, rfind(s, c) + 1, Len(s))

U16_MAX == 65535

\* the value of a digit string, U16_MAX + 1 as soon as it exceeds U16_MAX
RECURSIVE DigitsValue(_)
DigitsValue(s) ==
    IF s = <<>> THEN 0
    ELSE LET hi == DigitsValue(SubSeq(s, 1, Len(s) - 1))
             v == hi * 10 + DigitValue(s[Len(s)])
         IN  IF hi > U16_MAX \/ v > U16_MAX THEN U16_MAX + 1 ELSE v

\* str::parse::<u16>(): Some(value), or None for the empty string, a sign without
\* digits, a non-digit, a leading '-', or a value above u16::MAX
parse_u16(s) ==
    LET d == IF s # <<>> /\ s[1] = "+" THEN Tail(s) ELSE s
    IN  IF d = <<>> \/ \E i \in 1..Len(d) : ~IsAsciiDigit(d[i]) THEN None
        ELSE IF DigitsValue(d) > U16_MAX THEN None
        ELSE Some(DigitsValue(d))

\* strip_counter_suffix with find in place of rfind: cut at the first underscore
strip_counter_suffix_first(id) ==
    LET pos == IF \E i \in 1..Len(id) : id[i] = "_"
               THEN CHOOSE i \in 1..Len(id) :
                        id[i] = "_" /\ \A j \in 1..(i - 1) : id[j] # "_"
               ELSE 0
    IN  IF pos # 0 /\ \A i \in (pos + 1)..Len(id) : IsAsciiDigit(id[i])
        THEN SubSeq(id, 1, pos - 1)
        ELSE id

\* tray.rs strip_counter_suffix
strip_counter_suffix(id) ==
    LET pos == rfind(id, "_")
    IN  IF pos # 0 /\ \A i \in (pos + 1)..Len(id) : IsAsciiDigit(id[i])
        THEN SubSeq(id, 1, pos - 1)
        ELSE id

\* the string uid returns for the counter value n: format!("{}_{}", base, n)
uid_format(base, n) == base \o <<"_">> \o to_string(n)

---------------------------------------------------------------------------
(* commands.rs get_providers_inner: the catalog, provider by provider.      *)
(* The display labels are static text that no operation reads back.        *)

get_providers_inner ==
    << [name |-> <<"d","e","e","p","s","e","e","k">>,
        models |-> << <<"d","e","e","p","s","e","e","k","-","r","e","a","s","o","n","e","r">>,
                      <<"d","e","e","p","s","e","e","k","-","c","h","a","t">> >>],
       [name |-> <<"z","h","i","p","u">>,
        models |-> << <<"G","L","M","-","5">>,
                      <<"g","l","m","-","4","v","-","f","l","a","s","h">> >>],
       [name |-> <<"m","i","n","i","m","a","x">>,
        models |-> << <<"M","i","n","i","M","a","x","-","M","2",".","5">> >>],
       [name |-> <<"k","i","m","i">>,
        models |-> << <<"K","2",".","5">> >>],
       [name |-> <<"o","p","e","n","a","i">>,
        models |-> << <<"g","p","t","-","5",".","3","-","c","o","d","e","x">> >>] >>

---------------------------------------------------------------------------
(* registry.rs *)

\* read_registry without the liveness filter
read_registry_unfiltered(st, al) ==
    IF st.state # "ok" THEN <<>> ELSE st.entries

\* read_registry: the parsed entries whose pid is alive, in stored order;
\* the empty list when the file is missing or does not parse
read_registry(st, al) ==
    IF st.state # "ok" THEN <<>>
    ELSE SelectSeq(st.entries, LAMBDA e : e.pid \in al)

---------------------------------------------------------------------------
(* proxy_client.rs: the outcome of a call is what the server behind the    *)
(* port answers; Err stands for every transport or decoding failure.       *)

Err == [ok |-> FALSE, val |-> <<>>]
Ok(v) == [ok |-> TRUE, val |-> v]

\* ProxyClient::get_status
get_status(px, control_port, session_id) ==
    IF px[control_port].status.some THEN Ok(px[control_port].status.val) ELSE Err

\* ProxyClient::get_health
get_health(px, control_port) ==
    IF px[control_port].health THEN Ok("healthy") ELSE Err

---------------------------------------------------------------------------
(* commands.rs list_sessions_inner *)

\* lines 18-23
project_name(entry) ==
    IF entry.cwd.some THEN rsplit_next(entry.cwd.val, "/")
    ELSE <<"u","n","k","n","o","w","n">>

\* the SessionInfo with healthy taken from get_health in both arms
session_info_probed(px, entry) ==
    LET st == get_status(px, entry.control_port, entry.session_id)
        live == IF st.ok
                THEN <<st.val.switched, st.val.provider, st.val.model>>
                ELSE <<FALSE, None, None>>
    IN  [session_id |-> entry.session_id,
         port |-> entry.port,
         control_port |-> entry.control_port,
         pid |-> entry.pid,
         started_at |-> entry.started_at,
         cwd |-> entry.cwd,
         project_name |-> project_name(entry),
         switched |-> live[1],
         provider |-> live[2],
         model |-> live[3],
         healthy |-> get_health(px, entry.control_port).ok]

\* the SessionInfo without the get_health fallback
session_info_no_fallback(px, entry) ==
    LET st == get_status(px, entry.control_port, entry.session_id)
        live == IF st.ok
                THEN <<st.val.switched, st.val.provider, st.val.model, TRUE>>
                ELSE <<FALSE, None, None, FALSE>>
    IN  [session_id |-> entry.session_id,
         port |-> entry.port,
         control_port |-> entry.control_port,
         pid |-> entry.pid,
         started_at |-> entry.started_at,
         cwd |-> entry.cwd,
         project_name |-> project_name(entry),
         switched |-> live[1],
         provider |-> live[2],
         model |-> live[3],
         healthy |-> live[4]]

\* lines 26-53: the SessionInfo pushed for one entry
session_info(px, entry) ==
    LET st == get_status(px, entry.control_port, entry.session_id)
        live == IF st.ok
                THEN <<st.val.switched, st.val.provider, st.val.model, TRUE>>
                ELSE <<FALSE, None, None, get_health(px, entry.control_port).ok>>
    IN  [session_id |-> entry.session_id,
         port |-> entry.port,
         control_port |-> entry.control_port,
         pid |-> entry.pid,
         started_at |-> entry.started_at,
         cwd |-> entry.cwd,
         project_name |-> project_name(entry),
         switched |-> live[1],
         provider |-> live[2],
         model |-> live[3],
         healthy |-> live[4]]

\* the loop with an entry left out when its get_status fails
RECURSIVE collect_reachable(_, _)
collect_reachable(px, entries) ==
    IF entries = <<>> THEN <<>>
    ELSE LET e == Head(entries)
         IN  IF get_status(px, e.control_port, e.session_id).ok
             THEN <<session_info(px, e)>> \o collect_reachable(px, Tail(entries))
             ELSE collect_reachable(px, Tail(entries))

\* the loop over the entries, one push per entry
RECURSIVE collect_sessions(_, _)
collect_sessions(px, entries) ==
    IF entries = <<>> THEN <<>>
    ELSE <<session_info(px, Head(entries))>> \o collect_sessions(px, Tail(entries))

list_sessions_inner(st, al, px) == collect_sessions(px, read_registry(st, al))

\* the control-API requests list_sessions_inner sends, in order
RECURSIVE status_requests(_, _)
status_requests(px, entries) ==
    IF entries = <<>> THEN <<>>
    ELSE LET e == Head(entries)
             s == [op |-> "getStatus", control_port |-> e.control_port,
                   session_id |-> e.session_id]
             h == [op |-> "getHealth", control_port |-> e.control_port,
                   session_id |-> <<>>]
         IN  (IF get_status(px, e.control_port, e.session_id).ok
              THEN <<s>> ELSE <<s, h>>)
             \o status_requests(px, Tail(entries))

---------------------------------------------------------------------------
(* tray.rs compute_fingerprint *)

\* one "{}:{}:{}:{}:{}|" record
fingerprint_entry(s) ==
    s.session_id \o <<":">> \o BoolToString(s.healthy) \o <<":">>
    \o BoolToString(s.switched) \o <<":">>
    \o unwrap_or(s.provider, <<>>) \o <<":">>
    \o unwrap_or(s.model, <<>>) \o <<"|">>

RECURSIVE compute_fingerprint(_)
compute_fingerprint(sessions) ==
    IF sessions = <<>> THEN <<>>
    ELSE fingerprint_entry(Head(sessions)) \o compute_fingerprint(Tail(sessions))

---------------------------------------------------------------------------
(* tray.rs: the menu tree.  A leaf is a MenuItem, a group is a Submenu     *)
(* with its leaves; the static display text of a leaf is left out.         *)

MenuItem(id, enabled) ==
    [kind |-> "item", id |-> id, enabled |-> enabled, label |-> <<>>, items |-> <<>>]

Submenu(id, label) ==
    [kind |-> "submenu", id |-> id, enabled |-> TRUE, label |-> label, items |-> <<>>]

\* lines 173-187: "<first 8 characters of the session id> - <current model>"
session_label(s) ==
    LET current_model ==
            IF s.switched
            THEN unwrap_or(s.provider, <<"?">>) \o <<"/">> \o unwrap_or(s.model, <<"?">>)
            ELSE <<"C","l","a","u","d","e"," ","(","n","a","t","i","v","e",")">>
        n == IF Len(s.session_id) < 8 THEN Len(s.session_id) ELSE 8
    IN  SubSeq(s.session_id, 1, n) \o <<" ","-"," ">> \o current_model

\* lines 202-205: "switch:<control_port>:<session_id>:<provider>:<model>"
switch_action(s, provider, model) ==
    <<"s","w","i","t","c","h",":">> \o to_string(s.control_port) \o <<":">>
    \o s.session_id \o <<":">> \o provider \o <<":">> \o model

\* line 215: "revert:<control_port>:<session_id>"
revert_action(s) ==
    <<"r","e","v","e","r","t",":">> \o to_string(s.control_port) \o <<":">> \o s.session_id

\* What one rebuild creates, in the order of its uid calls: the base string each
\* uid call is given, and where the created entity goes ("top": appended to the
\* menu, "child": appended to the submenu created last).
Step(kind, place, base, enabled, label) ==
    [kind |-> kind, place |-> place, base |-> base, enabled |-> enabled, label |-> label]

\* lines 200-211: the switch entries of one session, provider by provider
RECURSIVE switch_steps(_, _, _)
switch_steps(s, providers, m) ==
    IF providers = <<>> THEN <<>>
    ELSE IF m > Len(Head(providers).models) THEN switch_steps(s, Tail(providers), 1)
    ELSE <<Step("item", "child",
                switch_action(s, Head(providers).name, Head(providers).models[m]),
                TRUE, <<>>)>>
         \o switch_steps(s, providers, m + 1)

\* the group of one session with the revert entry added unconditionally
session_steps_revert(s) ==
    <<Step("submenu", "top", <<"s","e","s","s","i","o","n","_">> \o s.session_id,
           TRUE, session_label(s))>>
    \o switch_steps(s, get_providers_inner, 1)
    \o <<Step("item", "child", revert_action(s), TRUE, <<>>)>>

\* lines 172-222: the group of one session
session_steps(s) ==
    <<Step("submenu", "top", <<"s","e","s","s","i","o","n","_">> \o s.session_id,
           TRUE, session_label(s))>>
    \o switch_steps(s, get_providers_inner, 1)
    \o (IF s.switched
        THEN <<Step("item", "child", revert_action(s), TRUE, <<>>)>>
        ELSE <<>>)

RECURSIVE sessions_steps(_)
sessions_steps(sessions) ==
    IF sessions = <<>> THEN <<>>
    ELSE session_steps(Head(sessions)) \o sessions_steps(Tail(sessions))

\* lines 163-227
rebuild_steps(sessions) ==
    <<Step("item", "top", <<"h","e","a","d","e","r">>, FALSE, <<>>)>>
    \o (IF sessions = <<>>
        THEN <<Step("item", "top", <<"n","o","_","s","e","s","s","i","o","n","s">>,
                    FALSE, <<>>)>>
        ELSE sessions_steps(sessions))
    \o <<Step("item", "top", <<"q","u","i","t">>, TRUE, <<>>)>>

\* the entity of a step with its identifier, appended where the step says
append_step(tree, st, id) ==
    LET e == IF st.kind = "submenu" THEN Submenu(id, st.label)
             ELSE MenuItem(id, st.enabled)
    IN  IF st.place = "top" THEN Append(tree, e)
        ELSE [tree EXCEPT ![Len(tree)].items = Append(@, e)]

\* build_empty_menu (lines 52-63) with the counter at n
build_empty_menu(n) ==
    << MenuItem(uid_format(<<"h","e","a","d","e","r">>, n), FALSE),
       MenuItem(uid_format(<<"n","o","_","s","e","s","s","i","o","n","s">>, n + 1), FALSE),
       MenuItem(uid_format(<<"q","u","i","t">>, n + 2), TRUE) >>

\* the identifiers of a menu tree, top-level entities and leaves of groups
RECURSIVE menu_ids(_)
menu_ids(tree) ==
    IF tree = <<>> THEN {}
    ELSE {Head(tree).id} \cup menu_ids(Head(tree).items) \cup menu_ids(Tail(tree))

\* the enabled leaves of a menu tree: what a user can click
RECURSIVE clickable_ids(_)
clickable_ids(tree) ==
    IF tree = <<>> THEN {}
    ELSE (IF Head(tree).kind = "item" /\ Head(tree).enabled THEN {Head(tree).id} ELSE {})
         \cup clickable_ids(Head(tree).items) \cup clickable_ids(Tail(tree))

---------------------------------------------------------------------------
(* The world outside the process: registry entries, processes, proxies *)

Entry1 ==
    [session_id |-> <<"a","b">>, port |-> 8000, control_port |-> 9000, pid |-> 1,
     started_at |-> 1, cwd |-> Some(<<"/","u","/","p">>)]

Entry2 ==
    [session_id |-> <<"c","d">>, port |-> 8001, control_port |-> 9001, pid |-> 2,
     started_at |-> 2, cwd |-> None]

Entry3 ==
    [session_id |-> <<"e">>, port |-> 8002, control_port |-> 9002, pid |-> 3,
     started_at |-> 3, cwd |-> Some(<<"q">>)]

ControlPorts == {Entry1.control_port, Entry2.control_port, Entry3.control_port}

\* a StatusResponse (the fields list_sessions_inner reads)
StatusResponse(switched, provider, model) ==
    [switched |-> switched, provider |-> provider, model |-> model]

NativeStatus == StatusResponse(FALSE, None, None)

SwitchedStatus ==
    StatusResponse(TRUE, Some(get_providers_inner[1].name),
                   Some(get_providers_inner[1].models[2]))

\* a proxy: does /health answer, and what /status answers if it does
Proxy(health, status) == [health |-> health, status |-> status]

ProxyDown == Proxy(FALSE, None)
ProxyNoStatus == Proxy(TRUE, None)
ProxyNative == Proxy(TRUE, Some(NativeStatus))
ProxySwitched == Proxy(TRUE, Some(SwitchedStatus))

StoreMissing == [state |-> "missing", entries |-> <<>>]
StoreCorrupt == [state |-> "corrupt", entries |-> <<>>]
StoreOk(entries) == [state |-> "ok", entries |-> entries]

World(st, al, px) == [store |-> st, alive |-> al, proxy |-> px]

AllDown == [p \in ControlPorts |-> ProxyDown]

\* the worlds the tray runs in: no registry file, or one live session whose
\* proxy reports native or switched
TrayWorlds ==
    { World(StoreMissing, {}, AllDown),
      World(StoreOk(<<Entry1>>), {1}, [AllDown EXCEPT ![9000] = ProxyNative]),
      World(StoreOk(<<Entry1>>), {1}, [AllDown EXCEPT ![9000] = ProxySwitched]) }

---------------------------------------------------------------------------
(* Tasks *)

Timer == 0
ActionTasks == 1..MaxActionTasks
Tasks == {Timer} \cup ActionTasks

TaskRecord(pc, id, call, result) ==
    [pc |-> pc, id |-> id, sessions |-> <<>>, todo |-> <<>>, building |-> <<>>,
     call |-> call, result |-> result]

\* an action task that does not run
NoTask == TaskRecord("none", <<>>, None, "none")

\* refresh_tray returns in task t with result r: the timer goes back to sleep
\* (main.rs:33), an action task ends (tray.rs:97, 106)
Returned(t, r) ==
    IF t = Timer THEN TaskRecord("sleep", <<>>, None, r)
    ELSE NoTask

\* the process after setup_tray (lines 28-43): build_empty_menu has taken the
\* first three counter values, no menu fingerprint is cached yet
InitProcess ==
    /\ counter = 3
    /\ last = <<>>
    /\ menu = build_empty_menu(0)
    /\ issued = <<build_empty_menu(0)[1].id, build_empty_menu(0)[2].id,
                  build_empty_menu(0)[3].id>>
    /\ exited = FALSE
    /\ task = [t \in Tasks |->
                 IF t = Timer THEN TaskRecord("sleep", <<>>, None, "none")
                 ELSE NoTask]
    /\ failures = 0

InitWorld(worlds) ==
    \E w \in worlds : store = w.store /\ alive = w.alive /\ proxy = w.proxy

NoProbe == [op |-> "none"]

Init ==
    /\ InitProcess
    /\ InitWorld({World(StoreMissing, {}, AllDown)})
    /\ probe = NoProbe

---------------------------------------------------------------------------
(* The environment *)

\* the registry file is rewritten, a process starts or dies, a proxy changes
EnvChange(worlds) ==
    /\ ~exited
    /\ \E w \in worlds :
         /\ w # World(store, alive, proxy)
         /\ store' = w.store
         /\ alive' = w.alive
         /\ proxy' = w.proxy
    /\ UNCHANGED <<counter, last, menu, issued, exited, task, probe, failures>>

---------------------------------------------------------------------------
(* main.rs:31-36: the timer task *)

Tick ==
    /\ ~exited
    /\ task[Timer].pc = "sleep"
    /\ task' = [task EXCEPT ![Timer].pc = "list"]
    /\ UNCHANGED <<counter, last, menu, issued, exited, store, alive, proxy, probe, failures>>

---------------------------------------------------------------------------
(* tray.rs refresh_tray, step by step in task t *)

\* line 148
RefreshList(t) ==
    /\ ~exited
    /\ task[t].pc = "list"
    /\ task' = [task EXCEPT ![t].pc = "cmp",
                            ![t].sessions = list_sessions_inner(store, alive, proxy)]
    /\ UNCHANGED <<counter, last, menu, issued, exited, store, alive, proxy, probe, failures>>

\* refresh_tray without the early return on an equal fingerprint
RefreshNoCompare(t) ==
    /\ ~exited
    /\ task[t].pc = "cmp"
    /\ last' = compute_fingerprint(task[t].sessions)
    /\ task' = [task EXCEPT ![t].pc = "build",
                            ![t].todo = rebuild_steps(task[t].sessions),
                            ![t].building = <<>>]
    /\ UNCHANGED <<counter, menu, issued, exited, store, alive, proxy, probe, failures>>

\* lines 151-158: under the lock, return if the fingerprint is the cached one,
\* store it otherwise
RefreshCompare(t) ==
    /\ ~exited
    /\ task[t].pc = "cmp"
    /\ LET fingerprint == compute_fingerprint(task[t].sessions)
       IN  IF last = fingerprint
           THEN /\ task' = [task EXCEPT ![t] = Returned(t, "unchanged")]
                /\ UNCHANGED last
           ELSE /\ last' = fingerprint
                /\ task' = [task EXCEPT ![t].pc = "build",
                                        ![t].todo = rebuild_steps(task[t].sessions),
                                        ![t].building = <<>>]
    /\ UNCHANGED <<counter, menu, issued, exited, store, alive, proxy, probe, failures>>

\* lines 160-162: the tray lookup or Menu::new fails
RefreshNoTray(t) ==
    /\ ~exited
    /\ task[t].pc = "build"
    /\ task[t].todo = rebuild_steps(task[t].sessions)
    /\ failures < MaxFailures
    /\ failures' = failures + 1
    /\ task' = [task EXCEPT ![t] = Returned(t, "failed")]
    /\ UNCHANGED <<counter, last, menu, issued, exited, store, alive, proxy, probe>>

\* uid without the counter suffix
uid_bare(base) == base

\* lines 47-50: uid(base) in one atomic fetch_add
uid(base) == uid_format(base, counter)

\* one uid call of the rebuild and the creation and appending of its entity
\* (lines 163-227); ok = FALSE: the creation or an append fails and
\* refresh_tray returns the error
RefreshCreate(t, ok, cap) ==
    /\ ~exited
    /\ task[t].pc = "build"
    /\ task[t].todo # <<>>
    /\ counter < cap
    /\ LET st == Head(task[t].todo)
           id == uid(st.base)
       IN  /\ counter' = counter + 1
           /\ issued' = Append(issued, id)
           /\ IF ok
              THEN task' = [task EXCEPT
                              ![t].building = append_step(@, st, id),
                              ![t].todo = Tail(@),
                              ![t].pc = IF Tail(task[t].todo) = <<>> THEN "set" ELSE "build"]
              ELSE /\ failures < MaxFailures
                   /\ task' = [task EXCEPT ![t] = Returned(t, "failed")]
           /\ failures' = IF ok THEN failures ELSE failures + 1
    /\ UNCHANGED <<last, menu, exited, store, alive, proxy, probe>>

\* line 229: set_menu
RefreshSetMenu(t, ok) ==
    /\ ~exited
    /\ task[t].pc = "set"
    /\ IF ok
       THEN /\ menu' = task[t].building
            /\ task' = [task EXCEPT ![t] = Returned(t, "installed")]
       ELSE /\ failures < MaxFailures
            /\ UNCHANGED menu
            /\ task' = [task EXCEPT ![t] = Returned(t, "failed")]
    /\ failures' = IF ok THEN failures ELSE failures + 1
    /\ UNCHANGED <<counter, last, issued, exited, store, alive, proxy, probe>>

---------------------------------------------------------------------------
(* tray.rs: clicks *)

\* a control-API request of an action task
ControlCall(op, control_port, session_id, provider, model) ==
    [op |-> op, control_port |-> control_port, session_id |-> session_id,
     provider |-> provider, model |-> model]

\* lines 67-80: on the event thread
handle_menu_event(id) ==
    /\ ~exited
    /\ IF starts_with(id, <<"q","u","i","t","_">>)
       THEN /\ exited' = TRUE
            /\ UNCHANGED task
       ELSE IF \/ starts_with(id, <<"s","w","i","t","c","h",":">>)
               \/ starts_with(id, <<"r","e","v","e","r","t",":">>)
       THEN /\ \E t \in ActionTasks :
                 /\ task[t].pc = "none"
                 /\ \A u \in ActionTasks : task[u].pc = "none" => t <= u
                 /\ task' = [task EXCEPT ![t] = TaskRecord("spawned", id, None, "none")]
            /\ UNCHANGED exited
       ELSE UNCHANGED <<exited, task>>
    /\ UNCHANGED <<counter, last, menu, issued, store, alive, proxy, failures>>

\* handle_action with the second arm taken for every tag
action_call_any_tag(id) ==
    LET parts == split(strip_counter_suffix(id), ":")
    IN  IF parts[1] = <<"s","w","i","t","c","h">> /\ Len(parts) >= 5
        THEN Some(ControlCall("switchModel", unwrap_or(parse_u16(parts[2]), 0),
                              parts[3], parts[4], parts[5]))
        ELSE IF Len(parts) >= 3
        THEN Some(ControlCall("revertModel", unwrap_or(parse_u16(parts[2]), 0),
                              parts[3], <<>>, <<>>))
        ELSE None

\* handle_action with provider and model taken from each other's field
action_call_swapped(id) ==
    LET parts == split(strip_counter_suffix(id), ":")
    IN  IF parts[1] = <<"s","w","i","t","c","h">> /\ Len(parts) >= 5
        THEN Some(ControlCall("switchModel", unwrap_or(parse_u16(parts[2]), 0),
                              parts[3], parts[5], parts[4]))
        ELSE IF parts[1] = <<"r","e","v","e","r","t">> /\ Len(parts) >= 3
        THEN Some(ControlCall("revertModel", unwrap_or(parse_u16(parts[2]), 0),
                              parts[3], <<>>, <<>>))
        ELSE None

\* lines 86-111: the request handle_action sends for the identifier, None if none
action_call(id) ==
    LET parts == split(strip_counter_suffix(id), ":")
    IN  IF parts[1] = <<"s","w","i","t","c","h">> /\ Len(parts) >= 5
        THEN Some(ControlCall("switchModel", unwrap_or(parse_u16(parts[2]), 0),
                              parts[3], parts[4], parts[5]))
        ELSE IF parts[1] = <<"r","e","v","e","r","t">> /\ Len(parts) >= 3
        THEN Some(ControlCall("revertModel", unwrap_or(parse_u16(parts[2]), 0),
                              parts[3], <<>>, <<>>))
        ELSE None

\* lines 84-96, 101-105: the spawned task sends its request and awaits the
\* response, or ends if the identifier is no action (line 110)
handle_action(t) ==
    /\ ~exited
    /\ task[t].pc = "spawned"
    /\ LET call == action_call(task[t].id)
       IN  IF call.some
           THEN task' = [task EXCEPT ![t].call = call, ![t].pc = "calling"]
           ELSE task' = [task EXCEPT ![t] = NoTask]
    /\ UNCHANGED <<counter, last, menu, issued, exited, store, alive, proxy, probe, failures>>

\* handle_action with refresh_tray called after the match, for Ok and Err
action_response_refresh(t, ok) ==
    /\ ~exited
    /\ task[t].pc = "calling"
    /\ task' = [task EXCEPT ![t].pc = "list"]
    /\ UNCHANGED <<counter, last, menu, issued, exited, store, alive, proxy, failures>>

\* handle_action without the refresh_tray call
action_response_end(t, ok) ==
    /\ ~exited
    /\ task[t].pc = "calling"
    /\ task' = [task EXCEPT ![t] = NoTask]
    /\ UNCHANGED <<counter, last, menu, issued, exited, store, alive, proxy, failures>>

\* lines 96-99, 105-108: the response arrives; refresh_tray follows on Ok,
\* the error is logged and the task ends on Err
action_response(t, ok) ==
    /\ ~exited
    /\ task[t].pc = "calling"
    /\ IF ok
       THEN task' = [task EXCEPT ![t].pc = "list"]
       ELSE task' = [task EXCEPT ![t] = NoTask]
    /\ UNCHANGED <<counter, last, menu, issued, exited, store, alive, proxy, failures>>

\* a click on an entry of the visible menu
Click ==
    /\ \E id \in clickable_ids(menu) : handle_menu_event(id)
    /\ UNCHANGED probe

---------------------------------------------------------------------------
(* The tray application *)

\* no task is between the fingerprint update and set_menu's last uid call
NoBuilder == \A t \in Tasks : task[t].pc # "build"

\* Lines 160-227 hold no await point.  Spec runs them as one uninterrupted
\* section per task (the uid calls in it commute with every step of the other
\* tasks but their uid calls), and lets every menu operation succeed;
\* SpecUid interleaves the uid calls of the tasks.
Next ==
    \/ NoBuilder /\ EnvChange(TrayWorlds)
    \/ NoBuilder /\ Tick
    \/ NoBuilder /\ Click
    \/ NoBuilder /\ \E t \in ActionTasks : handle_action(t)
    \/ NoBuilder /\ UNCHANGED probe
                 /\ \E t \in ActionTasks : \E ok \in BOOLEAN : action_response(t, ok)
    \/ NoBuilder /\ \E t \in Tasks : RefreshList(t)
    \/ NoBuilder /\ \E t \in Tasks : RefreshCompare(t)
    \/ NoBuilder /\ \E t \in Tasks : RefreshSetMenu(t, TRUE)
    \/ \E t \in Tasks : RefreshCreate(t, TRUE, MaxCounter)

Spec == Init /\ [][Next]_vars

NextUid ==
    \/ EnvChange(TrayWorlds)
    \/ Tick
    \/ Click
    \/ \E t \in ActionTasks : handle_action(t)
    \/ UNCHANGED probe /\ \E t \in ActionTasks : \E ok \in BOOLEAN : action_response(t, ok)
    \/ \E t \in Tasks : RefreshList(t)
    \/ \E t \in Tasks : RefreshCompare(t)
    \/ \E t \in Tasks : RefreshSetMenu(t, TRUE)
    \/ \E t \in Tasks : RefreshCreate(t, TRUE, MaxCounterUid)

SpecUid == Init /\ [][NextUid]_vars

\* SpecTimer: the timer task alone, one pass after the other, where the tray
\* lookup, the creation or appending of any entity and set_menu may fail.
NextTimer ==
    \/ EnvChange(TrayWorlds)
    \/ Tick
    \/ RefreshList(Timer)
    \/ RefreshCompare(Timer)
    \/ RefreshNoTray(Timer)
    \/ \E ok \in BOOLEAN : RefreshCreate(Timer, ok, MaxCounterTimer)
    \/ \E ok \in BOOLEAN : RefreshSetMenu(Timer, ok)

SpecTimer == Init /\ [][NextTimer]_vars

---------------------------------------------------------------------------
(* Menu trees up to the numbering of their identifiers *)

\* the entities of a tree in creation order, each with its place
RECURSIVE flatten(_, _)
flatten(tree, place) ==
    IF tree = <<>> THEN <<>>
    ELSE <<[kind |-> Head(tree).kind, place |-> place, id |-> Head(tree).id,
            enabled |-> Head(tree).enabled, label |-> Head(tree).label]>>
         \o flatten(Head(tree).items, "child")
         \o flatten(Tail(tree), place)

\* tree is what a rebuild for the session list creates, whatever counter values
\* its uid calls drew
BuiltFrom(tree, sessions) ==
    LET flat == flatten(tree, "top")
        steps == rebuild_steps(sessions)
    IN  /\ Len(flat) = Len(steps)
        /\ \A k \in 1..Len(steps) :
             /\ flat[k].kind = steps[k].kind
             /\ flat[k].place = steps[k].place
             /\ flat[k].enabled = steps[k].enabled
             /\ flat[k].label = steps[k].label
             /\ \E n \in 0..(counter - 1) : flat[k].id = uid_format(steps[k].base, n)

\* the session lists the tray can read in its worlds
TraySessionLists == {list_sessions_inner(w.store, w.alive, w.proxy) : w \in TrayWorlds}

\* the timer is asleep and no action task runs
Quiescent == \A t \in Tasks : task[t].pc \in {"sleep", "none"}

---------------------------------------------------------------------------
(* C1 *)

\* the identifiers of the entities task t has created in its current rebuild
BuildingIds(t) == menu_ids(task[t].building)

\* C1: all identifiers issued so far, by build_empty_menu and by every rebuild,
\* sequential or interleaved, are pairwise distinct, and the counter never
\* decreases (so it is never reset).
C1_IdentifiersUnique ==
    /\ [](\A i, j \in 1..Len(issued) : i # j => issued[i] # issued[j])
    /\ [][counter' >= counter]_vars

\* two rebuilds are under way and their uid calls alternated: the last three
\* identifiers went to one task, the other task, and the first again
C1_Witness ==
    \E t, u \in Tasks :
        /\ t # u
        /\ task[t].pc = "build" /\ task[u].pc = "build"
        /\ Len(issued) >= 3
        /\ issued[Len(issued)] \in BuildingIds(t)
        /\ issued[Len(issued) - 1] \in BuildingIds(u)
        /\ issued[Len(issued) - 2] \in BuildingIds(t)

---------------------------------------------------------------------------
(* C2 *)

\* C2: a refresh_tray pass whose session list has the cached fingerprint
\* returns without any menu mutation: the visible menu, the cached
\* fingerprint, the counter and the issued identifiers are unchanged.
C2_RefreshIdempotent ==
    [][\A t \in Tasks :
         (/\ task[t].pc = "cmp"
          /\ task'[t].pc # "cmp"
          /\ compute_fingerprint(task[t].sessions) = last)
         => (/\ menu' = menu
             /\ last' = last
             /\ counter' = counter
             /\ issued' = issued
             /\ task'[t].pc \in {"sleep", "none"})]_vars

\* a pass returned without mutation after an earlier pass had installed a
\* menu with a session group
C2_Witness ==
    /\ task[Timer].result = "unchanged" /\ task[Timer].pc = "sleep"
    /\ last # <<>>
    /\ \E k \in 1..Len(menu) : menu[k].kind = "submenu"

---------------------------------------------------------------------------
(* C3 *)

\* C3 (as claimed): in no state does the cached fingerprint already equal the
\* fingerprint of a rebuild under way while the visible menu is not yet the
\* menu of that rebuild.
C3_FingerprintAfterMenu ==
    \A t \in Tasks :
        (/\ task[t].pc \in {"build", "set"}
         /\ last = compute_fingerprint(task[t].sessions))
        => BuiltFrom(menu, task[t].sessions)

---------------------------------------------------------------------------
(* C4 *)

\* C4 (as claimed): once the timer's and the action task's passes have
\* completed, the visible menu is the menu built from the session list whose
\* fingerprint is the cached one.
C4_MenuMatchesFingerprint ==
    Quiescent =>
        \A sessions \in TraySessionLists :
            compute_fingerprint(sessions) = last => BuiltFrom(menu, sessions)

---------------------------------------------------------------------------
(* compute_fingerprint on its own: pairs of session lists that differ in   *)
(* one field of one entry                                                  *)

\* longest session list fingerprinted
MaxFpLen == 2

FpSession(session_id, healthy, switched, provider, model) ==
    [session_id |-> session_id, port |-> 8000, control_port |-> 9000, pid |-> 1,
     started_at |-> 1, cwd |-> None, project_name |-> project_name([cwd |-> None]),
     switched |-> switched, provider |-> provider, model |-> model,
     healthy |-> healthy]

\* the values of each fingerprinted field
FpFieldValues ==
    ({"session_id"} \X {<<"a">>, <<"a", ":">>})
    \cup ({"healthy", "switched"} \X BOOLEAN)
    \cup ({"provider"} \X {None, Some(<<>>), Some(<<"p">>)})
    \cup ({"model"} \X {None, Some(<<>>)})

FpValues(f) == {fv[2] : fv \in {x \in FpFieldValues : x[1] = f}}

\* the views list_sessions_inner can return: one without a status response
\* is not switched and has neither provider nor model
FpSessions ==
    {v \in {FpSession(i, h, s, p, m) :
                i \in FpValues("session_id"), h \in FpValues("healthy"),
                s \in FpValues("switched"), p \in FpValues("provider"),
                m \in FpValues("model")} :
        v.healthy \/ (~v.switched /\ v.provider = None /\ v.model = None)}

FpLists == UNION {[1..n -> FpSessions] : n \in 0..MaxFpLen}

\* the lists that are list a with one field of one entry set to another value
OneFieldChanged(a) ==
    {[a EXCEPT ![i][fv[1]] = fv[2]] : i \in 1..Len(a), fv \in FpFieldValues} \ {a}

InitFp ==
    /\ InitProcess
    /\ InitWorld({World(StoreMissing, {}, AllDown)})
    /\ \E a \in FpLists : \E b \in OneFieldChanged(a) \cap FpLists :
         probe = [op |-> "fingerprint_in", a |-> a, b |-> b]

\* compute_fingerprint applied to both lists
Fingerprint ==
    /\ probe.op = "fingerprint_in"
    /\ probe' = [op |-> "fingerprint", a |-> probe.a, b |-> probe.b,
                 fa |-> compute_fingerprint(probe.a),
                 fb |-> compute_fingerprint(probe.b)]
    /\ UNCHANGED <<counter, last, menu, issued, exited, store, alive, proxy, task,
                   failures>>

NextFp == Fingerprint

SpecFp == InitFp /\ [][NextFp]_vars

FingerprintedFields == {"session_id", "healthy", "switched", "provider", "model"}

\* a and b have the same length and differ in exactly one fingerprinted field
\* of exactly one entry
DiffersInOneField(a, b) ==
    /\ Len(a) = Len(b)
    /\ \E i \in 1..Len(a) : \E f \in FingerprintedFields :
         /\ a[i][f] # b[i][f]
         /\ \A j \in 1..Len(a) : \A g \in DOMAIN a[j] :
              (j # i \/ g # f) => a[j][g] = b[j][g]

\* C5 (as claimed): two session lists that differ in exactly one of sessionId,
\* healthy, switched, provider, model of exactly one entry have different
\* fingerprints.
C5_FingerprintInjective ==
    probe.op = "fingerprint"
        => (DiffersInOneField(probe.a, probe.b) => probe.fa # probe.fb)

---------------------------------------------------------------------------
(* list_sessions_inner on its own: the list_sessions command               *)
(* (commands.rs:7-9) in every world of three registry entries              *)

\* longest registry
MaxEntries == 3

AggEntries == {Entry1, Entry2, Entry3}

\* the entry lists without repetition
AggEntryLists ==
    {l \in UNION {[1..n -> AggEntries] : n \in 0..MaxEntries} :
        \A i, j \in 1..Len(l) : i # j => l[i] # l[j]}

AggProxies ==
    {ProxyDown, ProxyNoStatus, ProxyNative, ProxySwitched,
     Proxy(FALSE, Some(SwitchedStatus))}

AggWorlds ==
    {World(st, al, px) :
        st \in {StoreMissing, StoreCorrupt} \cup {StoreOk(l) : l \in AggEntryLists},
        al \in SUBSET {e.pid : e \in AggEntries},
        px \in [ControlPorts -> AggProxies]}

InitAgg ==
    /\ InitProcess
    /\ InitWorld(AggWorlds)
    /\ probe = NoProbe

\* the list_sessions command: what it returns, with the live entries it read
\* and the requests it sent
list_sessions ==
    /\ probe.op = "none"
    /\ probe' = [op |-> "list_sessions",
                 entries |-> read_registry(store, alive),
                 sessions |-> list_sessions_inner(store, alive, proxy),
                 requests |-> status_requests(proxy, read_registry(store, alive))]
    /\ UNCHANGED <<counter, last, menu, issued, exited, store, alive, proxy, task,
                   failures>>

NextAgg == list_sessions

SpecAgg == InitAgg /\ [][NextAgg]_vars

\* C6: list_sessions_inner returns exactly one SessionInfo per live registry
\* entry, in registry order, carrying that entry's sessionId, controlPort and
\* pid, whatever status and health calls failed.
C6_OneViewPerEntry ==
    probe.op = "list_sessions"
        => /\ Len(probe.sessions) = Len(probe.entries)
           /\ \A i \in 1..Len(probe.entries) :
                /\ probe.sessions[i].session_id = probe.entries[i].session_id
                /\ probe.sessions[i].control_port = probe.entries[i].control_port
                /\ probe.sessions[i].pid = probe.entries[i].pid

\* three live entries: the status and health calls of the second fail, the
\* first and the third are populated from their status responses
C6_Witness ==
    /\ probe.op = "list_sessions"
    /\ Len(probe.entries) = 3
    /\ Len(probe.sessions) = 3
    /\ ~probe.sessions[2].healthy
    /\ probe.sessions[1].healthy /\ probe.sessions[1].switched
    /\ probe.sessions[3].healthy /\ probe.sessions[3].switched

\* C7: every SessionInfo with healthy = false has switched = false and neither
\* provider nor model.
C7_UnhealthyCarriesNoStatus ==
    probe.op = "list_sessions"
        => \A i \in 1..Len(probe.sessions) :
             ~probe.sessions[i].healthy
                => /\ ~probe.sessions[i].switched
                   /\ probe.sessions[i].provider = None
                   /\ probe.sessions[i].model = None

\* an unhealthy view of an entry whose proxy would report a switched session
\* if its status call got through
C7_Witness ==
    /\ probe.op = "list_sessions"
    /\ \E i \in 1..Len(probe.sessions) :
         /\ ~probe.sessions[i].healthy
         /\ \E j \in 1..Len(probe.sessions) : probe.sessions[j].switched

\* the requests sent to a control port, in order
RequestsTo(port) == SelectSeq(probe.requests, LAMBDA r : r.control_port = port)

\* C8: the view of an entry is the status response with healthy = true when
\* getStatus succeeds, and healthy = (getHealth succeeded), switched = false,
\* no provider and no model when it fails; getHealth is sent only after a
\* failed getStatus of that entry.
C8_ViewFromCalls ==
    probe.op = "list_sessions"
        => \A i \in 1..Len(probe.entries) :
             LET e == probe.entries[i]
                 v == probe.sessions[i]
                 px == proxy[e.control_port]
                 sent == RequestsTo(e.control_port)
             IN  IF px.status.some
                 THEN /\ v.healthy
                      /\ v.switched = px.status.val.switched
                      /\ v.provider = px.status.val.provider
                      /\ v.model = px.status.val.model
                      /\ Len(sent) = 1 /\ sent[1].op = "getStatus"
                 ELSE /\ v.healthy = px.health
                      /\ ~v.switched
                      /\ v.provider = None /\ v.model = None
                      /\ Len(sent) = 2
                      /\ sent[1].op = "getStatus" /\ sent[2].op = "getHealth"

\* the spec's example: of three live entries the status call of one fails and
\* its health call succeeds, the others are populated from their responses
C8_Witness ==
    /\ probe.op = "list_sessions"
    /\ Len(probe.sessions) = 3
    /\ \E i \in 1..3 :
         /\ probe.sessions[i].healthy /\ ~probe.sessions[i].switched
         /\ ~proxy[probe.entries[i].control_port].status.some
         /\ \A j \in 1..3 : j # i => probe.sessions[j].provider # None

---------------------------------------------------------------------------
(* Clicks on their own: identifiers of the visible menu and identifiers no *)
(* rebuild creates, delivered to handle_menu_event                         *)

\* identifiers that are not in any menu: other field counts, other tags,
\* missing or non-numeric suffixes, port fields that are no u16
TestIds ==
    { <<"q","u","i","t">>,
      <<"q","u","i","t","_","7">>,
      <<"q","u","i","t","_","x">>,
      <<"q","u","i","t",":","x","_","3">>,
      <<"q","u","i","t","t","e","r","_","1">>,
      <<"h","e","a","d","e","r","_","0">>,
      <<"o","t","h","e","r",":","1",":","2","_","5">>,
      <<"s","w","i","t","c","h","_","3">>,
      <<"s","w","i","t","c","h",":","9","0","0","0",":","a","b",":","p","_","3">>,
      <<"s","w","i","t","c","h",":","9","0","0","0",":","a","b",":","p",":","m","_","3">>,
      <<"s","w","i","t","c","h",":","9","0","0","0",":","a",":","b",":","p",":","m","_","3">>,
      <<"r","e","v","e","r","t",":","9","0","0","0","_","2">>,
      <<"r","e","v","e","r","t",":","9","0","0","0",":","a","b","_","9">>,
      <<"r","e","v","e","r","t",":","9","0","0","0",":","a","b",":","x","_","1">>,
      <<"s","w","i","t","c","h",":","x",":","a","b",":","p",":","m","_","3">>,
      <<"r","e","v","e","r","t",":","7","0","0","0","0",":","a","b","_","2">>,
      <<"r","e","v","e","r","t",":",":","a","b","_","4">> }

\* the menu event for identifier id is delivered; probe keeps the identifier
MenuEvent ==
    \E id \in clickable_ids(menu) \cup TestIds :
        /\ handle_menu_event(id)
        /\ probe' = [op |-> "click", id |-> id]

\* the response to the request of an action task arrives; probe keeps the
\* task's identifier and whether the call returned Ok
Response ==
    \E t \in ActionTasks : \E ok \in BOOLEAN :
        /\ action_response(t, ok)
        /\ probe' = [op |-> "response", id |-> task[t].id, ok |-> ok]

InitClick ==
    /\ InitProcess
    /\ InitWorld(TrayWorlds)
    /\ probe = NoProbe

NextClick ==
    \/ NoBuilder /\ MenuEvent
    \/ NoBuilder /\ \E t \in ActionTasks : handle_action(t)
    \/ NoBuilder /\ Response
    \/ NoBuilder /\ \E t \in ActionTasks : RefreshList(t)
    \/ NoBuilder /\ \E t \in ActionTasks : RefreshCompare(t)
    \/ NoBuilder /\ \E t \in ActionTasks : RefreshSetMenu(t, TRUE)
    \/ \E t \in ActionTasks : RefreshCreate(t, TRUE, MaxCounter)

SpecClick == InitClick /\ [][NextClick]_vars

\* the fields of the canonical action string of an identifier
Fields(id) == split(strip_counter_suffix(id), ":")

\* tag switch with exactly 5 fields, or tag revert with exactly 3
ExactAction(id) ==
    \/ Fields(id)[1] = <<"s","w","i","t","c","h">> /\ Len(Fields(id)) = 5
    \/ Fields(id)[1] = <<"r","e","v","e","r","t">> /\ Len(Fields(id)) = 3

\* tag switch with at least 5 fields, or tag revert with at least 3
LongEnoughAction(id) ==
    \/ Fields(id)[1] = <<"s","w","i","t","c","h">> /\ Len(Fields(id)) >= 5
    \/ Fields(id)[1] = <<"r","e","v","e","r","t">> /\ Len(Fields(id)) >= 3

\* task t has sent a request or is in a reconciliation pass
Acting(t) == task[t].call.some \/ task[t].pc \notin {"none", "spawned"}

\* C9 (as claimed): a click causes a control-API call only for tag switch with
\* exactly 5 fields or tag revert with exactly 3; the task of every other
\* click sends no request and runs no reconciliation pass.
C9_OnlyExactActionsCall ==
    \A t \in ActionTasks : Acting(t) => ExactAction(task[t].id)

\* C9 (amended): a click causes a control-API call only for tag switch with
\* at least 5 fields or tag revert with at least 3; the task of every other
\* click sends no request and runs no reconciliation pass.
C9_OnlyLongEnoughActionsCall ==
    \A t \in ActionTasks : Acting(t) => LongEnoughAction(task[t].id)

\* the last click was on a switch identifier of 4 fields and its task has
\* ended: the menu is the one of setup_tray and no fingerprint is cached
C9_Witness ==
    /\ probe.op = "click"
    /\ starts_with(probe.id, <<"s","w","i","t","c","h",":">>)
    /\ Len(Fields(probe.id)) = 4
    /\ \A t \in ActionTasks : task[t] = NoTask
    /\ menu = build_empty_menu(0) /\ last = <<>> /\ counter = 3

\* C10 (as claimed): the click terminates the process if and only if the
\* first field of the canonical action string is quit.
C10_QuitByTag ==
    probe.op = "click" => (exited <=> Fields(probe.id)[1] = <<"q","u","i","t">>)

---------------------------------------------------------------------------
(* strip_counter_suffix on its own: every identifier over a small alphabet *)

\* longest identifier stripped
MaxIdLen == 4

\* a letter, the underscore, a digit and the field separator
IdChars == {"q", "_", "7", ":"}

IdStrings == UNION {[1..n -> IdChars] : n \in 0..MaxIdLen}

InitStrip ==
    /\ InitProcess
    /\ InitWorld({World(StoreMissing, {}, AllDown)})
    /\ \E id \in IdStrings : probe = [op |-> "strip_in", id |-> id]

\* strip_counter_suffix applied to the identifier
Strip ==
    /\ probe.op = "strip_in"
    /\ probe' = [op |-> "strip", id |-> probe.id, out |-> strip_counter_suffix(probe.id)]
    /\ UNCHANGED <<counter, last, menu, issued, exited, store, alive, proxy, task,
                   failures>>

NextStrip == Strip

SpecStrip == InitStrip /\ [][NextStrip]_vars

\* the identifier ends with an underscore followed by one or more digits, the
\* underscore at position k
EndsWithCounterAt(id, k) ==
    /\ k < Len(id)
    /\ id[k] = "_"
    /\ \A i \in (k + 1)..Len(id) : IsAsciiDigit(id[i])

\* C11 (as claimed): strip_counter_suffix removes a trailing underscore
\* followed by digits when the identifier ends with one and returns every
\* other identifier unchanged, an identifier that ends in an underscore with
\* no digit after it included.
C11_StripsOnlyCounterSuffix ==
    probe.op = "strip" =>
        IF \E k \in 1..Len(probe.id) : EndsWithCounterAt(probe.id, k)
        THEN \E k \in 1..Len(probe.id) :
                /\ EndsWithCounterAt(probe.id, k)
                /\ probe.out = SubSeq(probe.id, 1, k - 1)
        ELSE probe.out = probe.id

---------------------------------------------------------------------------
(* C12 *)

\* the sessions and the (provider, model) pairs of the identifiers clicked in
\* SpecClick: those of the menu entries and those of TestIds
DispatchTargets == {[control_port |-> 9000, session_id |-> <<"a","b">>]}

\* the (provider name, model id) pairs of the catalog
CatalogPairs ==
    UNION { {<<p.name, p.models[j]>> : j \in 1..Len(p.models)} :
            p \in {get_providers_inner[i] : i \in 1..Len(get_providers_inner)} }

DispatchPairs == CatalogPairs \cup {<< <<"p">>, <<"m">> >>}

\* C12: the task spawned for switch:<controlPort>:<sessionId>:<provider>:<model>_<n>
\* sends switchModel(controlPort, sessionId, provider, model), the task
\* spawned for revert:<controlPort>:<sessionId>_<n> sends
\* revertModel(controlPort, sessionId), and a task sends no switchModel or
\* revertModel request at any other step.
C12_DispatchRoutes ==
    [][\A t \in ActionTasks :
         /\ \A s \in DispatchTargets : \A n \in 0..MaxCounter :
              /\ \A pm \in DispatchPairs :
                   (/\ task[t].pc = "spawned"
                    /\ task[t].id = uid_format(switch_action(s, pm[1], pm[2]), n)
                    /\ task'[t] # task[t])
                   => (/\ task'[t].pc = "calling"
                       /\ task'[t].call = Some(ControlCall("switchModel", s.control_port,
                                                            s.session_id, pm[1], pm[2])))
              /\ (/\ task[t].pc = "spawned"
                  /\ task[t].id = uid_format(revert_action(s), n)
                  /\ task'[t] # task[t])
                 => (/\ task'[t].pc = "calling"
                     /\ task'[t].call = Some(ControlCall("revertModel", s.control_port,
                                                          s.session_id, <<>>, <<>>)))
         /\ task[t].pc # "spawned" => task'[t].call \in {task[t].call, None}]_vars

\* the task of a click on the revert entry of the visible menu has sent
\* revertModel for the session of that entry
C12_Witness ==
    \E t \in ActionTasks :
        /\ task[t].pc = "calling"
        /\ task[t].id \in clickable_ids(menu)
        /\ task[t].call.val.op = "revertModel"
        /\ task[t].call.val.session_id = <<"a","b">>

---------------------------------------------------------------------------
(* C13, C14 *)

\* task t is in a reconciliation pass
InRefresh(t) == task[t].pc \in {"list", "cmp", "build", "set"}

\* C13: when the switchModel or revertModel call of an action task returns an
\* error, the task ends without a reconciliation pass, the visible menu, the
\* cached fingerprint and the counter are as before, and the process runs on.
C13_FailedCallChangesNothing ==
    [][\A t \in ActionTasks :
         (/\ task[t].pc = "calling"
          /\ task'[t] # task[t]
          /\ probe'.op = "response" /\ ~probe'.ok)
         => (/\ task'[t] = NoTask
             /\ menu' = menu
             /\ last' = last
             /\ counter' = counter
             /\ issued' = issued
             /\ ~exited')]_vars

\* the call of a click on an entry of a rebuilt menu has failed and the task
\* has ended
C13_Witness ==
    /\ probe.op = "response" /\ ~probe.ok
    /\ probe.id \in clickable_ids(menu)
    /\ \E k \in 1..Len(menu) : menu[k].kind = "submenu"
    /\ \A t \in ActionTasks : task[t] = NoTask
    /\ ~exited

\* C14: when the call returns Ok the same task starts a reconciliation pass
\* that has read nothing yet: the registry and the session status are read in
\* a later step, and a task reads them at no step before its call has
\* returned; the task ends when that one pass returns.
C14_RefreshAfterCall ==
    [][\A t \in ActionTasks :
         /\ (/\ task[t].pc = "calling"
             /\ task'[t] # task[t]
             /\ probe'.op = "response" /\ probe'.ok)
            => (/\ task'[t].pc = "list"
                /\ task'[t].sessions = <<>>
                /\ task'[t].id = task[t].id)
         /\ (task'[t].pc \in {"spawned", "calling"} => task'[t].sessions = <<>>)
         /\ (task'[t].pc = "list" /\ task[t].pc # "list" => task[t].pc = "calling")
         /\ (InRefresh(t) /\ task'[t].pc \notin {"list", "cmp", "build", "set"}
             => task'[t] = NoTask)]_vars

\* the call of a click has returned Ok and the task's pass has read the
\* session list of a registry with one live session
C14_Witness ==
    \E t \in ActionTasks :
        /\ probe.op = "response" /\ probe.ok /\ probe.id = task[t].id
        /\ task[t].pc = "cmp"
        /\ Len(task[t].sessions) = 1

---------------------------------------------------------------------------
(* C15 *)

\* the position of entry e in the list l, 0 if it is not in it
PositionIn(l, e) ==
    IF \E i \in 1..Len(l) : l[i] = e THEN CHOOSE i \in 1..Len(l) : l[i] = e ELSE 0

\* C15: read_registry returns exactly the stored entries whose pid is alive,
\* in stored order, and the empty sequence when the store is missing or does
\* not parse; reading leaves the store as it is.
C15_ReadRegistryFiltersDead ==
    /\ [](probe.op = "list_sessions" =>
            IF store.state = "ok"
            THEN /\ \A i \in 1..Len(store.entries) :
                      store.entries[i].pid \in alive
                          <=> PositionIn(probe.entries, store.entries[i]) # 0
                 /\ \A i \in 1..Len(probe.entries) :
                      PositionIn(store.entries, probe.entries[i]) # 0
                 /\ \A i, j \in 1..Len(probe.entries) :
                      i < j => PositionIn(store.entries, probe.entries[i])
                               < PositionIn(store.entries, probe.entries[j])
            ELSE probe.entries = <<>>)
    /\ [][store' = store]_vars

\* three entries are stored, the process of the second is dead, and
\* read_registry has returned the first and the third
C15_Witness ==
    /\ probe.op = "list_sessions"
    /\ store.state = "ok"
    /\ Len(store.entries) = 3
    /\ store.entries[2].pid \notin alive
    /\ probe.entries = <<store.entries[1], store.entries[3]>>

---------------------------------------------------------------------------
(* Rebuilds on their own: the timer task in worlds of up to two sessions   *)

\* the counter value at which SpecMenu stops allocating
MaxCounterMenu == 41

\* no registry file; one native session; two sessions, the first switched;
\* the same two in the other order, the proxy of the first not answering
MenuWorlds ==
    { World(StoreMissing, {}, AllDown),
      World(StoreOk(<<Entry1>>), {1}, [AllDown EXCEPT ![9000] = ProxyNative]),
      World(StoreOk(<<Entry1, Entry3>>), {1, 3},
            [AllDown EXCEPT ![9000] = ProxySwitched, ![9002] = ProxyNative]),
      World(StoreOk(<<Entry3, Entry1>>), {1, 3},
            [AllDown EXCEPT ![9000] = ProxySwitched]) }

InitMenu ==
    /\ InitProcess
    /\ InitWorld(MenuWorlds)
    /\ probe = NoProbe

NextMenu ==
    \/ EnvChange(MenuWorlds)
    \/ Tick
    \/ RefreshList(Timer)
    \/ RefreshCompare(Timer)
    \/ RefreshCreate(Timer, TRUE, MaxCounterMenu)
    \/ RefreshSetMenu(Timer, TRUE)

SpecMenu == InitMenu /\ [][NextMenu]_vars

---------------------------------------------------------------------------
(* C16 *)

\* id is base with some counter value as suffix
Numbered(id, base) == \E n \in 0..(counter - 1) : id = uid_format(base, n)

\* the positions of the top-level entities of kind k in tree m
TopOfKind(m, k) == {i \in 1..Len(m) : m[i].kind = k}

\* group g is the group of session s: one switch entry per catalog pair, a
\* revert entry if and only if s is switched, and nothing else
GroupOf(g, s) ==
    /\ g.kind = "submenu"
    /\ \A pm \in CatalogPairs :
         Cardinality({i \in 1..Len(g.items) :
                        Numbered(g.items[i].id, switch_action(s, pm[1], pm[2]))}) = 1
    /\ Cardinality({i \in 1..Len(g.items) : Numbered(g.items[i].id, revert_action(s))})
         = (IF s.switched THEN 1 ELSE 0)
    /\ Len(g.items) = Cardinality(CatalogPairs) + (IF s.switched THEN 1 ELSE 0)
    /\ \A i \in 1..Len(g.items) : g.items[i].kind = "item" /\ g.items[i].enabled

\* the groups of tree m, in order
Groups(m) == SelectSeq(m, LAMBDA e : e.kind = "submenu")

\* C16: the menu a rebuild installs has one group per session of the list the
\* rebuild read, in the order of the list, each with one switch entry per
\* catalog pair and a revert entry if and only if the session is switched;
\* it has exactly one quit entry, and the disabled no-sessions placeholder if
\* and only if the list is empty.
C16_InstalledMenuShape ==
    [][\A t \in Tasks :
         (task[t].pc = "set" /\ menu' # menu)
         => LET sessions == task[t].sessions
            IN  /\ Len(Groups(menu')) = Len(sessions)
                /\ \A k \in 1..Len(sessions) : GroupOf(Groups(menu')[k], sessions[k])
                /\ Cardinality({i \in TopOfKind(menu', "item") :
                                  Numbered(menu'[i].id, <<"q","u","i","t">>)
                                  /\ menu'[i].enabled}) = 1
                /\ (sessions = <<>>
                    <=> \E i \in TopOfKind(menu', "item") :
                          /\ Numbered(menu'[i].id,
                                      <<"n","o","_","s","e","s","s","i","o","n","s">>)
                          /\ ~menu'[i].enabled)]_vars

\* the visible menu has two groups, the first with a revert entry and the
\* second without
C16_Witness ==
    /\ Len(Groups(menu)) = 2
    /\ Len(Groups(menu)[1].items) = Cardinality(CatalogPairs) + 1
    /\ Len(Groups(menu)[2].items) = Cardinality(CatalogPairs)
    /\ task[Timer].result = "installed"

---------------------------------------------------------------------------
(* C17 *)

\* a click on the first switch entry of a session group of the visible menu
ClickSwitch ==
    /\ \E k \in 1..Len(menu) :
         /\ menu[k].kind = "submenu"
         /\ handle_menu_event(menu[k].items[1].id)
    /\ UNCHANGED probe

\* a step of the timer task
TimerStep ==
    \/ NoBuilder /\ Tick
    \/ NoBuilder /\ RefreshList(Timer)
    \/ NoBuilder /\ RefreshCompare(Timer)
    \/ NoBuilder /\ RefreshSetMenu(Timer, TRUE)
    \/ RefreshCreate(Timer, TRUE, MaxCounter)

\* a step of action task t after its dispatch; its call succeeds
ActionRun(t) ==
    \/ NoBuilder /\ UNCHANGED probe /\ action_response(t, TRUE)
    \/ NoBuilder /\ RefreshList(t)
    \/ NoBuilder /\ RefreshCompare(t)
    \/ NoBuilder /\ RefreshSetMenu(t, TRUE)
    \/ RefreshCreate(t, TRUE, MaxCounter)

\* a step of action task t
ActionStep(t) ==
    \/ NoBuilder /\ handle_action(t)
    \/ ActionRun(t)

\* SpecLive: the tasks of Spec with a user who clicks switch entries only.
\* Every task runs on: the timer wakes up every 2 seconds (main.rs:33), and
\* each call a task awaits returns or times out.  The environment and the user
\* are under no obligation.  The dispatch step of an action task carries no
\* condition here; C17 is about the behaviours in which every task returns
\* again and again, and in those every spawned task has been dispatched.
NextLive ==
    \/ NoBuilder /\ EnvChange(TrayWorlds)
    \/ NoBuilder /\ ClickSwitch
    \/ TimerStep
    \/ \E t \in ActionTasks : ActionStep(t)

Fairness ==
    /\ WF_vars(TimerStep)
    /\ \A t \in ActionTasks : WF_vars(ActionRun(t))

SpecLive == Init /\ [][NextLive]_vars /\ Fairness

\* C17 (as claimed): if the session data stops changing at the list of world
\* w, the tasks keep running and the process does not exit, then eventually
\* the visible menu is the menu built from that list, and stays so.
C17_EventuallyMenuOfData ==
    \A w \in TrayWorlds :
        (/\ <>[](World(store, alive, proxy) = w)
         /\ []<>Quiescent
         /\ [](~exited))
        => <>[]BuiltFrom(menu, list_sessions_inner(w.store, w.alive, w.proxy))

---------------------------------------------------------------------------
(* C18 *)

\* C18 (as claimed): when a rebuild fails before set_menu has installed the
\* new menu, the cached fingerprint is not the fingerprint of the list of the
\* failed pass (it has kept the value it had before the pass), so the next
\* pass over the same list is not skipped as unchanged.
C18_FailedRebuildIsRetried ==
    [][\A t \in Tasks :
         (/\ task[t].pc \in {"build", "set"}
          /\ task'[t].pc \in {"sleep", "none"}
          /\ menu' = menu)
         => last' # compute_fingerprint(task[t].sessions)]_vars

---------------------------------------------------------------------------
(* The round trip through the menu: session ids with ':' and '_'           *)

\* the counter value at which SpecTrip stops allocating
MaxCounterTrip == 22

EntryColon == [Entry2 EXCEPT !.session_id = <<"c", ":", "d">>]

EntryUnderscore == [Entry3 EXCEPT !.session_id = <<"e", "_", "1">>]

\* one switched session with a plain id; a switched session whose id holds
\* '_' followed by a digit, before a native session whose id holds ':'
TripWorlds ==
    { World(StoreOk(<<Entry1>>), {1}, [AllDown EXCEPT ![9000] = ProxySwitched]),
      World(StoreOk(<<EntryUnderscore, EntryColon>>), {2, 3},
            [AllDown EXCEPT ![9002] = ProxySwitched, ![9001] = ProxyNative]) }

InitTrip ==
    /\ InitProcess
    /\ InitWorld(TripWorlds)
    /\ probe = NoProbe

NextTrip ==
    \/ Tick
    \/ Click
    \/ \E t \in ActionTasks : handle_action(t)
    \/ UNCHANGED probe /\ \E t \in ActionTasks : \E ok \in BOOLEAN : action_response(t, ok)
    \/ \E t \in Tasks : RefreshList(t)
    \/ \E t \in Tasks : RefreshCompare(t)
    \/ \E t \in Tasks : RefreshSetMenu(t, TRUE)
    \/ \E t \in Tasks : RefreshCreate(t, TRUE, MaxCounterTrip)

SpecTrip == InitTrip /\ [][NextTrip]_vars

\* the (provider name, model id) pairs of the catalog in the order of the
\* loops of lines 200-201
RECURSIVE catalog_pairs(_, _)
catalog_pairs(providers, m) ==
    IF providers = <<>> THEN <<>>
    ELSE IF m > Len(Head(providers).models) THEN catalog_pairs(Tail(providers), 1)
    ELSE << <<Head(providers).name, Head(providers).models[m]>> >>
         \o catalog_pairs(providers, m + 1)

\* the request the j-th entry of the group of session s stands for: the
\* switch entries in catalog order, then the revert entry
EntryCall(s, j) ==
    LET pairs == catalog_pairs(get_providers_inner, 1)
    IN  IF j <= Len(pairs)
        THEN ControlCall("switchModel", s.control_port, s.session_id,
                         pairs[j][1], pairs[j][2])
        ELSE ControlCall("revertModel", s.control_port, s.session_id, <<>>, <<>>)

\* C19 (as claimed): the request sent for a click on an entry of the visible
\* menu is the request of the session and the catalog pair the entry was
\* created for, also when the session id holds ':' or '_'.
C19_MenuRoundTrip ==
    LET sessions == list_sessions_inner(store, alive, proxy)
    IN  \A t \in ActionTasks :
            task[t].pc = "calling" =>
                \A g \in 1..Len(Groups(menu)) : \A j \in 1..Len(Groups(menu)[g].items) :
                    Groups(menu)[g].items[j].id = task[t].id
                        => task[t].call = Some(EntryCall(sessions[g], j))

---------------------------------------------------------------------------
(* C20 *)

\* the identifier has the switch or revert tag and a second field that
\* parse::<u16>() rejects
InvalidPort(id) ==
    LET parts == split(strip_counter_suffix(id), ":")
    IN  /\ parts[1] \in {<<"s","w","i","t","c","h">>, <<"r","e","v","e","r","t">>}
        /\ Len(parts) >= 2
        /\ ~parse_u16(parts[2]).some

\* C20 (as claimed): the task spawned for a switch or revert identifier whose
\* controlPort field is no valid port number ends without sending a request
\* and without a reconciliation pass: it is never seen past "spawned".
C20_InvalidPortIgnored ==
    \A t \in ActionTasks :
        InvalidPort(task[t].id) => /\ task[t].pc = "spawned"
                                   /\ ~task[t].call.some

---------------------------------------------------------------------------
(* SpecInv: uid followed by strip_counter_suffix, for every base *)

\* the counter value at which SpecInv stops allocating
MaxCounterInv == 13

\* the base the calls of this behaviour are made with
InitInv ==
    /\ InitProcess
    /\ InitWorld({World(StoreMissing, {}, AllDown)})
    /\ \E base \in IdStrings : probe = [op |-> "uid_in", base |-> base]

\* lines 47-50: one uid(base) call; probe keeps the counter value it took and
\* the identifier it returned
Allocate ==
    /\ probe.op \in {"uid_in", "uid_strip"}
    /\ counter < MaxCounterInv
    /\ counter' = counter + 1
    /\ issued' = Append(issued, uid(probe.base))
    /\ probe' = [op |-> "uid_out", base |-> probe.base, n |-> counter,
                 id |-> uid(probe.base)]
    /\ UNCHANGED <<last, menu, exited, store, alive, proxy, task, failures>>

\* lines 114-123: strip_counter_suffix applied to the identifier uid returned
StripAllocated ==
    /\ probe.op = "uid_out"
    /\ probe' = [op |-> "uid_strip", base |-> probe.base, n |-> probe.n,
                 id |-> probe.id, out |-> strip_counter_suffix(probe.id)]
    /\ UNCHANGED <<counter, last, menu, issued, exited, store, alive, proxy, task,
                   failures>>

NextInv ==
    \/ Allocate
    \/ StripAllocated

SpecInv == InitInv /\ [][NextInv]_vars

\* C21: strip_counter_suffix applied to the identifier uid builds from a base
\* and a counter value returns exactly the base, whatever the base holds
\* (underscores, colons, a trailing underscore with or without digits).
C21_StripInvertsUid ==
    probe.op = "uid_strip" => probe.out = probe.base

\* the identifier of a base that holds a colon and ends in _<digit>, built
\* with a two-digit counter value, has been stripped back to the base
C21_Witness ==
    /\ probe.op = "uid_strip"
    /\ probe.base = <<"q", ":", "_", "7">>
    /\ probe.n = 10
    /\ probe.id = <<"q", ":", "_", "7", "_", "1", "0">>
    /\ probe.out = probe.base

====
